---- MODULE Spec2Model ----
(***************************************************************************)
(* Verification model of the DTF halftoner core:                           *)
(*   src/src/core/halftone_algorithms.py  (HalftoneAlgorithms)             *)
(*   src/src/core/color_separation.py     (DTFColorSeparator)              *)
(*   src/src/core/processor.py            (DTFProcessor)                   *)
(*                                                                         *)
(* Planes are functions [0..h-1 -> [0..w-1 -> sample]], indexed [y][x] as  *)
(* the numpy arrays of the source are.  Fractions are kept exact: a        *)
(* threshold matrix is a matrix of integer numerators over one common      *)
(* denominator, and comparisons are cross-multiplied.                      *)
(***************************************************************************)
EXTENDS Integers, Sequences, FiniteSets, TLC

VARIABLES
    \* a halftone function run on its own
    phase,             \* "call" before the function under study ran, "returned" after
    args,              \* arguments of the halftone function under study
    threshold_matrix,  \* ordered_dither: the matrix built by bayer_matrix
    ret,               \* the value the function under study (or process) returned
    frame,             \* the locals of the function under study while it runs
    \* the caller's inputs to DTFProcessor.process
    image,             \* the raster, [y][x] -> <<r, g, b>>
    edge_map,          \* what cv2.Canny and cv2.dilate return for the raster
    config,            \* the DTFConfig the processor holds
    progress_callback, \* TRUE when the caller passes a progress sink
    \* the fields of the DTFProcessor
    is_processing,
    current_progress,
    total_steps,
    results,
    \* the call of process in flight
    pc,                \* position in process
    step,              \* the step 1..8 being notified or worked on
    cmyk_array,
    black_channel,
    white_layer,
    channels,
    halftoned,
    \* observations
    sink,              \* the notifications the progress sink received in this call
    events,            \* notifications and finished work of this call, in order
    run,               \* number of calls of process so far
    completed,         \* the last call that halftoned all five channels, 0 if none
    failure,           \* what raised in this call: "none", "callback", "environment"
    compensated,       \* the channels apply_dot_gain_compensation was called on
    results_at_call,   \* self.results at the entry of the call in flight
    \* the main window and its worker threads
    ui,                \* DTFMainWindow: original_image, process_btn, queued signals
    workers            \* the ProcessingWorker threads started and where each one is

halftoneOnly == <<phase, args, threshold_matrix, frame>>
inputVars == <<image, edge_map, config, progress_callback>>
fieldVars == <<is_processing, current_progress, total_steps, results>>
localVars == <<cmyk_array, black_channel, white_layer, channels, halftoned>>
windowVars == <<ui, workers>>
procVars == <<inputVars, fieldVars, pc, step, localVars, sink, events, run, completed, failure,
              compensated, results_at_call, windowVars>>
halftoneVars == <<phase, args, threshold_matrix, ret, frame>>
vars == <<halftoneVars, procVars>>

(***************************************************************************)
(* Bounds of the explored inputs.                                          *)
(***************************************************************************)
MaxW == 3
MaxSize == 32

\* plane heights explored; a rotation needs two rows and three columns
\* to sample between pixels
PlaneHeights == {1, 2}

\* 8-bit samples the input planes are drawn from: no ink, a light tone
\* just above the threshold 1/4, full ink
Samples == {0, 64, 255}

\* matrix_size arguments given to ordered_dither: powers of two and one
\* size that is not
MatrixSizes == {2, 3, 4, 8}

\* screen angles in degrees: 0, two configured defaults (15 is cyan, 45 is
\* black and the default of the angle parameter) and a right angle
Angles == {0, 15, 45, 90}

NoValue == <<>>

(***************************************************************************)
(* Plane helpers.                                                          *)
(***************************************************************************)
Height(p) == Cardinality(DOMAIN p)
Width(p) == IF Height(p) = 0 THEN 0 ELSE Cardinality(DOMAIN p[0])

PlanesOf(h, w, S) == [0..(h - 1) -> [0..(w - 1) -> S]]

PlaneValues(p) == {p[y][x] : y \in DOMAIN p, x \in 0..(Width(p) - 1)}

IsPowerOfTwo(n) == n \in {2, 4, 8, 16, 32, 64}

(***************************************************************************)
(* HalftoneAlgorithms.bayer_matrix                                         *)
(***************************************************************************)
BayerBase == [r \in 0..1 |-> [c \in 0..1 |->
                 IF r = 0 THEN (IF c = 0 THEN 0 ELSE 2)
                          ELSE (IF c = 0 THEN 3 ELSE 1)]]

\* one pass of the `while n < size` loop, n being the size already built:
\* the new matrix has size n*2 and its quadrant (i, j) is the old matrix
\* plus (i*2 + j) * (new_n*new_n // 4)
BayerStepSameOffset(n, matrix) ==
    LET n2 == n * 2
    IN  [r \in 0..(n2 - 1) |-> [c \in 0..(n2 - 1) |->
            LET i == r \div n
                j == c \div n
            IN  matrix[r - i * n][c - j * n]
                  + (i + j) * ((n2 * n2) \div 4)]]

BayerStep(n, matrix) ==
    LET n2 == n * 2
    IN  [r \in 0..(n2 - 1) |-> [c \in 0..(n2 - 1) |->
            LET i == r \div n
                j == c \div n
            IN  matrix[r - i * n][c - j * n]
                  + (i * 2 + j) * ((n2 * n2) \div 4)]]

RECURSIVE bayer_loop(_, _, _)
bayer_loop(n, matrix, size) ==
    IF n < size
    THEN bayer_loop(n * 2, BayerStep(n, matrix), size)
    ELSE [n |-> n, num |-> matrix]

\* the returned matrix is num / den, an n x n matrix
bayer_matrix(size) ==
    IF size = 2
    THEN [n |-> 2, num |-> BayerBase, den |-> 4]
    ELSE LET L == bayer_loop(2, BayerBase, size)
         IN  [n |-> L.n, num |-> L.num, den |-> size * size]

(***************************************************************************)
(* scipy.ndimage.rotate(result, angle, reshape=False, order=1) as          *)
(* ordered_dither calls it: the output pixel (i, j) samples the input at   *)
(*   row = c*(i - cy) + s*(j - cx) + cy,  col = -s*(i - cy) + c*(j - cx) + cx *)
(* (cy, cx the centre), bilinearly, and is 0 (cval) when the sampled point *)
(* lies outside the input (mode='constant').  cos and sin are kept in      *)
(* thousandths; coordinates are kept in units of 1/(2*TrigScale).          *)
(***************************************************************************)
TrigScale == 1000

CosK(angle) == CASE angle = 0  -> 1000
                 [] angle = 15 -> 966
                 [] angle = 30 -> 866
                 [] angle = 45 -> 707
                 [] angle = 75 -> 259
                 [] angle = 90 -> 0

SinK(angle) == CASE angle = 0  -> 0
                 [] angle = 15 -> 259
                 [] angle = 30 -> 500
                 [] angle = 45 -> 707
                 [] angle = 75 -> 966
                 [] angle = 90 -> 1000

\* value of a binary plane at an integer position, 0 outside of it
At(p, y, x) == IF y \in DOMAIN p /\ x \in DOMAIN p[0] THEN p[y][x] ELSE 0

\* the interpolated value at output pixel (i, j), as a numerator over
\* (2*TrigScale)^2, for a plane of values 0/1
RotateSample(p, angle, i, j) ==
    LET h == Height(p)
        w == Width(p)
        D == 2 * TrigScale
        I2 == 2 * i - (h - 1)
        J2 == 2 * j - (w - 1)
        row == CosK(angle) * I2 + SinK(angle) * J2 + TrigScale * (h - 1)
        col == CosK(angle) * J2 - SinK(angle) * I2 + TrigScale * (w - 1)
        y0 == row \div D
        x0 == col \div D
        fy == row - y0 * D
        fx == col - x0 * D
    IN  IF row < 0 \/ row > D * (h - 1) \/ col < 0 \/ col > D * (w - 1)
        THEN 0
        ELSE (D - fy) * (D - fx) * At(p, y0, x0)
               + (D - fy) * fx * At(p, y0, x0 + 1)
               + fy * (D - fx) * At(p, y0 + 1, x0)
               + fy * fx * At(p, y0 + 1, x0 + 1)

\* result as numerators over RotateDen
RotateDen == (2 * TrigScale) * (2 * TrigScale)

rotate(p, angle) ==
    [i \in DOMAIN p |-> [j \in DOMAIN p[i] |-> RotateSample(p, angle, i, j)]]

(***************************************************************************)
(* HalftoneAlgorithms.ordered_dither                                       *)
(***************************************************************************)
\* np.tile(threshold_matrix, (tiles_h, tiles_w))[:h, :w]
TiledMatrix(tm, h, w) ==
    LET tiles_h == (h + tm.n - 1) \div tm.n
        tiles_w == (w + tm.n - 1) \div tm.n
        full_h == tiles_h * tm.n
        full_w == tiles_w * tm.n
    IN  [y \in 0..((IF h < full_h THEN h ELSE full_h) - 1) |->
            [x \in 0..((IF w < full_w THEN w ELSE full_w) - 1) |->
                tm.num[y % tm.n][x % tm.n]]]

\* normalized > tiled_matrix, with normalized = sample / 255 and the
\* threshold num / den
AboveOrEqual(sample, num, den) == sample * den >= 255 * num

Above(sample, num, den) == sample * den > 255 * num

OrderedDitherWith(channel, tm, angle) ==
    LET h == Height(channel)
        w == Width(channel)
        tiled_matrix == TiledMatrix(tm, h, w)
        result == [y \in 0..(h - 1) |-> [x \in 0..(w - 1) |->
                      IF Above(channel[y][x], tiled_matrix[y][x], tm.den)
                      THEN 1 ELSE 0]]
    IN  IF angle # 0
        THEN LET rotated == rotate(result, angle)
             IN  [y \in 0..(h - 1) |-> [x \in 0..(w - 1) |->
                     (rotated[y][x] * 255) \div RotateDen]]
        ELSE [y \in 0..(h - 1) |-> [x \in 0..(w - 1) |-> result[y][x] * 255]]

ordered_dither(channel, matrix_size, angle) ==
    OrderedDitherWith(channel, bayer_matrix(matrix_size), angle)

(***************************************************************************)
(* HalftoneAlgorithms.floyd_steinberg.  The working plane `output` is kept *)
(* in units of 1/FSScale, which holds every sixteenth exactly for the      *)
(* plane sizes explored.                                                   *)
(***************************************************************************)
FSScale == 1048576

\* output[y, x] += delta, when (y, x) is the pixel (ty, tx)
AddAtRowAbove(out, ty, tx, delta) ==
    [out EXCEPT ![IF ty > 0 THEN ty - 1 ELSE ty] = [@ EXCEPT ![tx] = @ + delta]]

AddAt(out, ty, tx, delta) ==
    [out EXCEPT ![ty] = [@ EXCEPT ![tx] = @ + delta]]

\* line 81: new_pixel = 255.0 if old_pixel > 127.5 else 0.0
new_pixel_from_127(old_pixel) ==
    IF old_pixel >= 127 * FSScale THEN 255 * FSScale ELSE 0

new_pixel(old_pixel) ==
    IF 2 * old_pixel > 255 * FSScale THEN 255 * FSScale ELSE 0

\* the body of the two loops at pixel (y, x)
fs_pixel_backward(out, y, x, h, w) ==
    LET old_pixel == out[y][x]
        error == old_pixel - new_pixel(old_pixel)
        e16 == error \div 16
        o1 == [out EXCEPT ![y] = [@ EXCEPT ![x] = new_pixel(old_pixel)]]
        o2 == IF x > 0 THEN AddAt(o1, y, x - 1, e16 * 7) ELSE o1
        o3 == IF y + 1 < h /\ x > 0 THEN AddAt(o2, y + 1, x - 1, e16 * 3) ELSE o2
        o4 == IF y + 1 < h THEN AddAt(o3, y + 1, x, e16 * 5) ELSE o3
        o5 == IF y + 1 < h /\ x + 1 < w THEN AddAt(o4, y + 1, x + 1, e16 * 1) ELSE o4
    IN  o5

fs_pixel(out, y, x, h, w) ==
    LET old_pixel == out[y][x]
        error == old_pixel - new_pixel(old_pixel)
        e16 == error \div 16
        o1 == [out EXCEPT ![y] = [@ EXCEPT ![x] = new_pixel(old_pixel)]]
        o2 == IF x + 1 < w THEN AddAt(o1, y, x + 1, e16 * 7) ELSE o1
        o3 == IF y + 1 < h /\ x > 0 THEN AddAt(o2, y + 1, x - 1, e16 * 3) ELSE o2
        o4 == IF y + 1 < h THEN AddAt(o3, y + 1, x, e16 * 5) ELSE o3
        o5 == IF y + 1 < h /\ x + 1 < w THEN AddAt(o4, y + 1, x + 1, e16 * 1) ELSE o4
    IN  o5

\* for y in range(h): for x in range(w), from the pixel numbered k = y*w + x
RECURSIVE fs_scan(_, _, _, _)
fs_scan(out, k, h, w) ==
    IF k >= h * w THEN out
    ELSE fs_scan(fs_pixel(out, k \div w, k % w, h, w), k + 1, h, w)

\* line 76: output = channel.copy().astype(np.float32)
fs_copy(channel) ==
    [y \in DOMAIN channel |-> [x \in DOMAIN channel[y] |-> channel[y][x] * FSScale]]

\* line 95: np.clip(output, 0, 255).astype(np.uint8)
fs_clip(final) ==
    [y \in DOMAIN final |-> [x \in DOMAIN final[y] |->
        IF final[y][x] <= 0 THEN 0
        ELSE IF final[y][x] >= 255 * FSScale THEN 255
        ELSE final[y][x] \div FSScale]]

floyd_steinberg(channel) ==
    fs_clip(fs_scan(fs_copy(channel), 0, Height(channel), Width(channel)))

(***************************************************************************)
(* HalftoneAlgorithms.hybrid_halftone.  A threshold is a fraction          *)
(* [num, den] of full scale; the defaults are 0.2 and 0.8.                 *)
(***************************************************************************)
DefaultHighlight == [num |-> 1, den |-> 5]
DefaultShadow == [num |-> 4, den |-> 5]

highlight_mask(v, highlight_threshold) ==
    v * highlight_threshold.den < 255 * highlight_threshold.num

shadow_mask(v, shadow_threshold) ==
    v * shadow_threshold.den > 255 * shadow_threshold.num

midtone_mask(v, highlight_threshold, shadow_threshold) ==
    ~(highlight_mask(v, highlight_threshold) \/ shadow_mask(v, shadow_threshold))

\* lines 104-109: the three masks, and line 112: output = np.zeros_like(channel)
hybrid_masks(channel, highlight_threshold, shadow_threshold) ==
    LET M(Op(_)) == [y \in DOMAIN channel |-> [x \in DOMAIN channel[y] |->
                        Op(channel[y][x])]]
        H(v) == highlight_mask(v, highlight_threshold)
        S(v) == shadow_mask(v, shadow_threshold)
        T(v) == midtone_mask(v, highlight_threshold, shadow_threshold)
        Z(v) == 0
    IN  [highlight_mask |-> M(H), shadow_mask |-> M(S), midtone_mask |-> M(T),
         output |-> M(Z)]

\* lines 115-117: FM for highlights and shadows
hybrid_fm(channel, masks, output) ==
    LET fm_result == floyd_steinberg(channel)
        fm(y, x) == masks.highlight_mask[y][x] \/ masks.shadow_mask[y][x]
    IN  IF \E y \in DOMAIN channel : \E x \in DOMAIN channel[y] : fm(y, x)
        THEN [y \in DOMAIN channel |-> [x \in DOMAIN channel[y] |->
                 IF fm(y, x) THEN fm_result[y][x] ELSE output[y][x]]]
        ELSE output

\* lines 120-125: AM for midtones
hybrid_am(channel, masks, output) ==
    LET w == Width(channel)
        midtones == {k \in 0..(Height(channel) * w - 1) :
                        masks.midtone_mask[k \div w][k % w]}
        \* position of the pixel k in channel[midtone_mask], row-major
        Rank(k) == Cardinality({j \in midtones : j < k})
        \* channel[midtone_mask].reshape(-1, 1)
        column == [i \in 0..(Cardinality(midtones) - 1) |->
                      [x \in 0..0 |->
                          LET k == CHOOSE j \in midtones : Rank(j) = i
                          IN  channel[k \div w][k % w]]]
        \* matrix_size=8, and the default of the angle parameter
        am_result == ordered_dither(column, 8, 45)
    IN  IF midtones # {}
        THEN [y \in DOMAIN channel |-> [x \in DOMAIN channel[y] |->
                 IF masks.midtone_mask[y][x]
                 THEN am_result[Rank(y * w + x)][0]
                 ELSE output[y][x]]]
        ELSE output

hybrid_halftone(channel, highlight_threshold, shadow_threshold) ==
    LET masks == hybrid_masks(channel, highlight_threshold, shadow_threshold)
    IN  hybrid_am(channel, masks, hybrid_fm(channel, masks, masks.output))

(***************************************************************************)
(* DTFConfig: the fields the core reads.  total_ink_limit is in percent,   *)
(* dot_gain in hundredths, angles in degrees.                              *)
(***************************************************************************)
ChannelNames == {"cyan", "magenta", "yellow", "black", "white"}

DefaultAngles ==
    [name \in ChannelNames |->
        CASE name = "cyan"    -> 15
          [] name = "magenta" -> 75
          [] name = "yellow"  -> 0
          [] name = "black"   -> 45
          [] name = "white"   -> 30]

DefaultConfig ==
    [angles           |-> DefaultAngles,
     method           |-> "ordered",
     matrix_size      |-> 8,
     white_method     |-> "edge_enhanced",
     black_generation |-> "GCR",
     total_ink_limit  |-> 280,
     dot_gain         |-> 12]

(***************************************************************************)
(* DTFColorSeparator.rgb_to_cmyk.  A coverage is a fraction [num, den];    *)
(* the 8-bit sample is floor(255 * clip(num/den, 0, 1)).  The 1e-10 of the *)
(* GCR denominator is below the float32 resolution of a denominator that   *)
(* is at least 0.2, and is left out.                                       *)
(***************************************************************************)
Min2(a, b) == IF a < b THEN a ELSE b

\* line 28: k = min(c, m, y) * 0.8, as a numerator over 1275
gcr_black_whole(lo) == 5 * lo

gcr_black(lo) == 4 * lo

\* line 37: k = min(c, m, y), as a numerator over 255
ucr_black_half(lo) == lo \div 2

ucr_black(lo) == lo

\* c, m, y, k of the pixel <<r, g, b>> before ink limiting
black_generation(px, mode) ==
    LET cn == 255 - px[1]
        mn == 255 - px[2]
        yn == 255 - px[3]
        lo == Min2(Min2(cn, mn), yn)
    IN  IF mode = "GCR"
        THEN LET kn == gcr_black(lo)
                 \* 1.0 - k, over 1275
                 B == 1275 - kn
             IN  [c |-> [num |-> 5 * cn - kn, den |-> B],
                  m |-> [num |-> 5 * mn - kn, den |-> B],
                  y |-> [num |-> 5 * yn - kn, den |-> B],
                  k |-> [num |-> kn, den |-> 1275]]
        ELSE LET kn == ucr_black(lo)
             IN  [c |-> [num |-> cn - kn, den |-> 255],
                  m |-> [num |-> mn - kn, den |-> 255],
                  y |-> [num |-> yn - kn, den |-> 255],
                  k |-> [num |-> kn, den |-> 255]]

\* total_ink = c + m + y + k as one fraction (c, m and y share a denominator)
total_ink(v) ==
    [num |-> (v.c.num + v.m.num + v.y.num) * v.k.den + v.k.num * v.c.den,
     den |-> v.c.den * v.k.den]

\* mask = total_ink > total_ink_limit / 100
OverLimitHalf(t, limit) == 200 * t.num > limit * t.den

OverLimit(t, limit) == 100 * t.num > limit * t.den

\* <<q, r>> with a * b = q * c + r and 0 <= r < c, without forming a * b
RECURSIVE MulDivMod(_, _, _)
MulDivMod(a, b, c) ==
    IF b = 0 THEN <<0, 0>>
    ELSE LET half == MulDivMod(a, b \div 2, c)
             s == 2 * half[2] + (b % 2) * (a % c)
             q == 2 * half[1] + (b % 2) * (a \div c)
         IN  <<q + (s \div c), s % c>>

\* floor(255 * clip(f * scale, 0, 1)), scale = (limit / 100) / total_ink;
\* the denominator of f divides the denominator t.den of total_ink
UnscaledSample(f, t, limit) ==
    IF f.num <= 0 THEN 0
    ELSE IF f.num >= f.den THEN 255
    ELSE (255 * f.num) \div f.den

ScaledSample(f, t, limit) ==
    LET v == MulDivMod(f.num * limit, 51 * (t.den \div f.den), 20 * t.num)[1]
    IN  IF v > 255 THEN 255 ELSE v

\* floor(255 * clip(f, 0, 1))
PlainSample(f) ==
    IF f.num <= 0 THEN 0
    ELSE IF f.num >= f.den THEN 255
    ELSE (255 * f.num) \div f.den

\* the four 8-bit samples of one pixel
SeparatePixel(px, cfg) ==
    LET v == black_generation(px, cfg.black_generation)
        t == total_ink(v)
        S(f) == IF OverLimit(t, cfg.total_ink_limit)
                THEN ScaledSample(f, t, cfg.total_ink_limit)
                ELSE PlainSample(f)
    IN  [c |-> S(v.c), m |-> S(v.m), y |-> S(v.y), k |-> S(v.k)]

\* returns (cmyk_array, black_channel); cmyk_array is kept as its four planes
rgb_to_cmyk(rgb, cfg) ==
    LET px(y, x) == SeparatePixel(rgb[y][x], cfg)
        P(ch) == [y \in DOMAIN rgb |-> [x \in DOMAIN rgb[y] |-> px(y, x)[ch]]]
    IN  [cmyk_array |-> [c |-> P("c"), m |-> P("m"), y |-> P("y"), k |-> P("k")],
         black_channel |-> P("k")]

(***************************************************************************)
(* DTFColorSeparator.generate_white_layer.  cv2.Canny and cv2.dilate are   *)
(* library code: their result, the dilated edge map, is the input `edges`. *)
(***************************************************************************)
\* np.mean(rgb, axis=2) is RGBSum(px) / Len(px): the mean runs over every
\* channel of the pixel, the alpha channel of an RGBA raster included
RECURSIVE RGBSum(_)
RGBSum(px) == IF px = <<>> THEN 0 ELSE Head(px) + RGBSum(Tail(px))

\* mask * 255 as uint8
mask_as_flag(on) == IF on THEN 1 ELSE 0

mask_times_255(on) == IF on THEN 255 ELSE 0

\* line 110: alpha < 250
alpha_at_least_250(alpha) == alpha >= 250

alpha_below_250(alpha) == alpha < 250

generate_white_layer(rgb, method, edges) ==
    [y \in DOMAIN rgb |-> [x \in DOMAIN rgb[y] |->
        LET px == rgb[y][x]
            n == Len(px)
        IN  IF method = "full"
            THEN mask_times_255(RGBSum(px) < n * 250)            \* mean < 250
            ELSE IF method = "halftone"                           \* 1 - mean/255 > 0.3
            THEN mask_times_255(10 * (n * 255 - RGBSum(px)) > 3 * n * 255)
            ELSE IF method = "edge_enhanced"
            THEN mask_times_255(RGBSum(px) < n * 220 \/ edges[y][x])
            ELSE IF method = "transparency_based"
            THEN IF n = 4 THEN mask_times_255(alpha_below_250(px[4])) ELSE 255
            ELSE 255]]

(***************************************************************************)
(* DTFColorSeparator.apply_dot_gain_compensation: the lookup table         *)
(* lut[i] = uint8(255 * (1 - (1 - i/255) ** (1 / (1 + dot_gain)))).        *)
(***************************************************************************)
DotGainLUT12 ==
    <<
         0,   0,   1,   2,   3,   4,   5,   6,   7,   8,   8,   9,  10,  11,  12,  13,
        14,  15,  16,  17,  17,  18,  19,  20,  21,  22,  23,  24,  25,  26,  26,  27,
        28,  29,  30,  31,  32,  33,  34,  35,  36,  36,  37,  38,  39,  40,  41,  42,
        43,  44,  45,  46,  46,  47,  48,  49,  50,  51,  52,  53,  54,  55,  56,  57,
        57,  58,  59,  60,  61,  62,  63,  64,  65,  66,  67,  68,  69,  70,  70,  71,
        72,  73,  74,  75,  76,  77,  78,  79,  80,  81,  82,  83,  83,  84,  85,  86,
        87,  88,  89,  90,  91,  92,  93,  94,  95,  96,  97,  98,  99, 100, 100, 101,
       102, 103, 104, 105, 106, 107, 108, 109, 110, 111, 112, 113, 114, 115, 116, 117,
       118, 119, 120, 121, 122, 122, 123, 124, 125, 126, 127, 128, 129, 130, 131, 132,
       133, 134, 135, 136, 137, 138, 139, 140, 141, 142, 143, 144, 145, 146, 147, 148,
       149, 150, 151, 152, 153, 154, 155, 156, 157, 158, 159, 160, 161, 162, 163, 164,
       165, 166, 167, 168, 169, 170, 171, 172, 173, 174, 175, 176, 177, 178, 179, 180,
       181, 182, 183, 184, 185, 187, 188, 189, 190, 191, 192, 193, 194, 195, 196, 197,
       198, 199, 200, 201, 202, 204, 205, 206, 207, 208, 209, 210, 211, 212, 213, 215,
       216, 217, 218, 219, 220, 221, 222, 224, 225, 226, 227, 228, 229, 231, 232, 233,
       234, 235, 237, 238, 239, 240, 242, 243, 244, 246, 247, 248, 250, 251, 253, 255
    >>

\* the table for dot_gain = 0: y = 1 - (1 - x) in float64 with x = i * (1/255)
\* as np.linspace computes it, truncated to 8 bits
DotGainLUT0 ==
    <<
         0,   0,   1,   2,   3,   5,   6,   7,   8,   8,   9,  10,  12,  13,  14,  15,
        16,  16,  17,  18,  19,  21,  22,  23,  24,  24,  25,  26,  28,  29,  30,  31,
        32,  32,  33,  34,  35,  36,  38,  39,  40,  40,  41,  43,  44,  45,  46,  47,
        48,  48,  49,  50,  51,  52,  54,  55,  56,  56,  57,  59,  60,  61,  62,  63,
        64,  65,  65,  66,  67,  68,  70,  71,  72,  73,  73,  75,  76,  77,  78,  79,
        80,  81,  81,  82,  83,  84,  86,  87,  88,  89,  89,  91,  92,  93,  94,  95,
        96,  97,  97,  98,  99, 100, 102, 103, 104, 105, 105, 107, 108, 109, 110, 111,
       112, 113, 113, 114, 115, 116, 118, 119, 120, 121, 121, 123, 124, 125, 126, 127,
       128, 129, 130, 131, 131, 133, 134, 135, 136, 137, 138, 139, 140, 141, 142, 143,
       144, 145, 146, 147, 147, 149, 150, 151, 152, 153, 154, 155, 156, 157, 158, 159,
       160, 161, 162, 163, 163, 165, 166, 167, 168, 169, 170, 171, 172, 173, 174, 175,
       176, 177, 178, 179, 179, 181, 182, 183, 184, 185, 186, 187, 188, 189, 190, 191,
       192, 193, 194, 195, 195, 197, 198, 199, 200, 201, 202, 203, 204, 205, 206, 207,
       208, 209, 210, 211, 211, 213, 214, 215, 216, 217, 218, 219, 220, 221, 222, 223,
       224, 225, 226, 227, 227, 229, 230, 231, 232, 233, 234, 235, 236, 237, 238, 239,
       240, 241, 242, 243, 243, 245, 246, 247, 248, 249, 250, 251, 252, 253, 254, 255
    >>

dot_gain_lut_uncorrected(dot_gain) == DotGainLUT12

dot_gain_lut(dot_gain) == CASE dot_gain = 12 -> DotGainLUT12
                            [] dot_gain = 0  -> DotGainLUT0

apply_dot_gain_compensation(channel, dot_gain) ==
    [y \in DOMAIN channel |-> [x \in DOMAIN channel[y] |->
        dot_gain_lut(dot_gain)[channel[y][x] + 1]]]

(***************************************************************************)
(* DTFProcessor.create_preview.  The float32 sum of lines 187-198 is kept  *)
(* in tenths of an 8-bit unit: 2550 * (1 - channel/255) is                 *)
(* 2550 - 10 * channel and 2550 * 0.3 * white/255 is 3 * white.            *)
(***************************************************************************)
\* samples of the planes create_preview is explored on
PreviewSamples == {0, 65, 255}

\* line 197: brightness_boost = channel_norm * 0.3
brightness_boost_whole(white) == 10 * white

brightness_boost(white) == 3 * white

\* the (channel, white) samples over PreviewSamples for which the float32
\* arithmetic ends below the integer the exact value is, so that the cast
\* of line 202 truncates to one unit less: 1 - float32(65/255) is
\* 0.74509805 and 0.74509805 * 255 is 189.99998
Float32Low == {<<65, 0>>}

\* lines 187-202 for one colour of one pixel
preview_sample(channel, white) ==
    LET sum == (2550 - 10 * channel) + brightness_boost(white)
        clipped == IF sum < 0 THEN 0 ELSE IF sum > 2550 THEN 2550 ELSE sum
    IN  IF <<channel, white>> \in Float32Low
        THEN (clipped \div 10) - 1
        ELSE clipped \div 10

\* stored is self.results, a name -> [plane, ...] mapping
create_preview(stored) ==
    IF DOMAIN stored = {}
    THEN [y \in 0..99 |-> [x \in 0..99 |-> <<0, 0, 0>>]]
    ELSE LET cyan == stored["cyan"].plane
             P(name, y, x) == preview_sample(stored[name].plane[y][x],
                                             stored["white"].plane[y][x])
         IN  [y \in DOMAIN cyan |-> [x \in DOMAIN cyan[y] |->
                 <<P("cyan", y, x), P("magenta", y, x), P("yellow", y, x)>>]]

(***************************************************************************)
(* DTFProcessor.process, one action per statement group of the method: the *)
(* entry, each progress notification, each step's work, the store of the   *)
(* result, the return, and the propagation of an exception.                *)
(***************************************************************************)
Black == <<0, 0, 0>>
White == <<255, 255, 255>>
Palette == {Black, White}

\* rasters explored: one colour, or one colour with a spot of another in
\* the middle of the last row
FlatRaster(h, w, c) == [y \in 0..(h - 1) |-> [x \in 0..(w - 1) |-> c]]

SpotRaster(h, w, bg, fg) ==
    [y \in 0..(h - 1) |-> [x \in 0..(w - 1) |->
        IF y = h - 1 /\ x = w \div 2 THEN fg ELSE bg]]

Rasters ==
    UNION {{FlatRaster(h, w, c) : c \in Palette}
             \cup {SpotRaster(h, w, bg, fg) : bg \in Palette, fg \in Palette}
           : h \in PlaneHeights, w \in 1..MaxW}

IsFlat(rgb) == \A y \in DOMAIN rgb : \A x \in DOMAIN rgb[y] : rgb[y][x] = rgb[0][0]

\* edge maps the library may return: none on a raster of one colour,
\* otherwise none or, after the dilation, every pixel
EdgeMaps(rgb) ==
    {[y \in DOMAIN rgb |-> [x \in DOMAIN rgb[y] |-> e]]
       : e \in IF IsFlat(rgb) THEN {FALSE} ELSE BOOLEAN}

\* config.method values: the three methods and one unrecognized name
Methods == {"ordered", "error_diffusion", "hybrid", "stochastic"}

Configs == {[DefaultConfig EXCEPT !.method = m] : m \in Methods}

\* number of process calls explored on one processor
MaxRuns == 2

channel_order_swapped == <<"magenta", "cyan", "yellow", "black", "white">>

channel_order == <<"cyan", "magenta", "yellow", "black", "white">>

\* the message of the notification that announces step k
StepMessage(k) ==
    CASE k = 1 -> "Separating colors..."
      [] k = 2 -> "Generating white layer..."
      [] k = 3 -> "Applying dot gain compensation..."
      [] k \in 4..8 -> "Halftoning " \o channel_order[k - 3] \o " channel..."

\* the work of step k
StepWork(k) ==
    CASE k = 1 -> "rgb_to_cmyk"
      [] k = 2 -> "generate_white_layer"
      [] k = 3 -> "apply_dot_gain_compensation"
      [] k \in 4..8 -> "halftone " \o channel_order[k - 3]

\* angle = self.config.angles.get(name, 0.0)
AngleOf(cfg, name) ==
    IF name \in DOMAIN cfg.angles THEN cfg.angles[name] ELSE 0

\* the arm of the if / elif chain on config.method taken for a method name
MethodArmDiffusionDefault(method) ==
    IF method = "ordered" THEN "ordered"
    ELSE IF method = "hybrid" THEN "hybrid"
    ELSE "error_diffusion"

MethodArm(method) ==
    IF method = "ordered" THEN "ordered"
    ELSE IF method = "error_diffusion" THEN "error_diffusion"
    ELSE IF method = "hybrid" THEN "hybrid"
    ELSE "default"

\* the halftone of one channel: the function called and the plane it returns
HalftoneChannel(cfg, name, plane) ==
    LET arm == MethodArm(cfg.method)
    IN  IF arm = "ordered"
        THEN [alg |-> "ordered_dither",
              plane |-> ordered_dither(plane, cfg.matrix_size, AngleOf(cfg, name))]
        ELSE IF arm = "error_diffusion"
        THEN [alg |-> "floyd_steinberg", plane |-> floyd_steinberg(plane)]
        ELSE IF arm = "hybrid"
        THEN [alg |-> "hybrid_halftone",
              plane |-> hybrid_halftone(plane, DefaultHighlight, DefaultShadow)]
        ELSE \* ordered_dither(channels[name]): matrix_size=8, angle=45.0
             [alg |-> "ordered_dither", plane |-> ordered_dither(plane, 8, 45)]

\* what self.results holds while the loop fills the local dict halftoned
ResultsAliased(stored, local) == local

ResultsDuringLoop(stored, local) == stored

\* is_processing once the finally clause has run, on a return or a raise
IsProcessingWithoutFinally(raised) == raised

IsProcessingAfterFinally(raised) == FALSE

EmptyDict == <<>>

ProcInit ==
    /\ image \in Rasters
    /\ edge_map \in EdgeMaps(image)
    /\ config \in Configs
    /\ progress_callback \in BOOLEAN
    /\ is_processing = FALSE
    /\ current_progress = 0
    /\ total_steps = 0
    /\ results = EmptyDict
    /\ pc = "idle"
    /\ step = 0
    /\ cmyk_array = NoValue
    /\ black_channel = NoValue
    /\ white_layer = NoValue
    /\ channels = EmptyDict
    /\ halftoned = EmptyDict
    /\ sink = <<>>
    /\ events = <<>>
    /\ run = 0
    /\ completed = 0
    /\ failure = "none"
    /\ compensated = {}
    /\ results_at_call = EmptyDict
    /\ ui = NoValue
    /\ workers = <<>>

\* the state of a processor that no specification of the halftone
\* functions touches
ProcUnused ==
    /\ image = NoValue
    /\ edge_map = NoValue
    /\ config = DefaultConfig
    /\ progress_callback = FALSE
    /\ is_processing = FALSE
    /\ current_progress = 0
    /\ total_steps = 0
    /\ results = EmptyDict
    /\ pc = "idle"
    /\ step = 0
    /\ cmyk_array = NoValue
    /\ black_channel = NoValue
    /\ white_layer = NoValue
    /\ channels = EmptyDict
    /\ halftoned = EmptyDict
    /\ sink = <<>>
    /\ events = <<>>
    /\ run = 0
    /\ completed = 0
    /\ failure = "none"
    /\ compensated = {}
    /\ results_at_call = EmptyDict
    /\ ui = NoValue
    /\ workers = <<>>

\* process(image, progress_callback): lines 57-59, with fresh locals
Call ==
    /\ pc \in {"idle", "returned", "raised"}
    /\ run < MaxRuns
    /\ run' = run + 1
    /\ is_processing' = TRUE
    /\ current_progress' = 0
    /\ total_steps' = 8
    /\ pc' = "notify"
    /\ step' = 1
    /\ cmyk_array' = NoValue
    /\ black_channel' = NoValue
    /\ white_layer' = NoValue
    /\ channels' = EmptyDict
    /\ halftoned' = EmptyDict
    /\ sink' = <<>>
    /\ events' = <<>>
    /\ failure' = "none"
    /\ ret' = NoValue
    /\ compensated' = {}
    /\ results_at_call' = results
    /\ UNCHANGED <<inputVars, results, completed, halftoneOnly, windowVars>>

\* if progress_callback: progress_callback(step, message), for a step
\* 1..8 and for the closing notification of line 129
Deliver(k, msg) ==
    /\ sink' = IF progress_callback THEN Append(sink, [step |-> k, msg |-> msg]) ELSE sink
    /\ events' = IF progress_callback
                 THEN Append(events, [kind |-> "notify", step |-> k, what |-> msg])
                 ELSE events

Notify ==
    /\ pc = "notify"
    /\ Deliver(step, StepMessage(step))
    /\ pc' = "work"
    /\ UNCHANGED <<inputVars, fieldVars, step, localVars, run, completed, failure, ret, halftoneOnly, compensated,
                   results_at_call, windowVars>>

NotifyComplete ==
    /\ pc = "notify_complete"
    /\ Deliver(8, "Processing complete!")
    /\ pc' = "return"
    /\ UNCHANGED <<inputVars, fieldVars, step, localVars, run, completed, failure, ret, halftoneOnly, compensated,
                   results_at_call, windowVars>>

\* the callback raises
NotifyRaises ==
    /\ pc \in {"notify", "notify_complete"}
    /\ progress_callback
    /\ Deliver(IF pc = "notify" THEN step ELSE 8,
               IF pc = "notify" THEN StepMessage(step) ELSE "Processing complete!")
    /\ pc' = "except"
    /\ failure' = "callback"
    /\ UNCHANGED <<inputVars, fieldVars, step, localVars, run, completed, ret, halftoneOnly, compensated,
                   results_at_call, windowVars>>

Worked(k) == events' = Append(events, [kind |-> "work", step |-> k, what |-> StepWork(k)])

\* what the caller's raster holds once rgb_to_cmyk has run: line 18,
\* rgb.astype(np.float32) / 255.0, and lines 21-23 build new arrays, and the
\* in-place scaling of lines 48-51 works on those
astype_view(rgb) ==
    [y \in DOMAIN rgb |-> [x \in DOMAIN rgb[y] |->
        <<255 - rgb[y][x][1], 255 - rgb[y][x][2], 255 - rgb[y][x][3]>>]]

astype_copy(rgb) == rgb

\* Step 1, line 66
ColorSeparation ==
    /\ pc = "work" /\ step = 1
    /\ LET r == rgb_to_cmyk(image, config)
       IN  /\ cmyk_array' = r.cmyk_array
           /\ black_channel' = r.black_channel
    /\ image' = astype_copy(image)
    /\ Worked(1)
    /\ step' = 2
    /\ pc' = "notify"
    /\ UNCHANGED <<edge_map, config, progress_callback, fieldVars, white_layer, channels,
                   halftoned, sink, run, completed, failure, ret, halftoneOnly, compensated,
                   results_at_call, windowVars>>

\* Step 2, line 72
WhiteLayer ==
    /\ pc = "work" /\ step = 2
    /\ white_layer' = generate_white_layer(image, config.white_method, edge_map)
    /\ Worked(2)
    /\ step' = 3
    /\ pc' = "notify"
    /\ UNCHANGED <<inputVars, fieldVars, cmyk_array, black_channel, channels, halftoned,
                   sink, run, completed, failure, ret, halftoneOnly, compensated,
                   results_at_call, windowVars>>

\* line 90: if name != 'white', the test of the dot gain loop
is_compensated_every(name) == TRUE

is_compensated(name) == name # "white"

\* Step 3, lines 78-91
DotGain ==
    /\ pc = "work" /\ step = 3
    /\ LET raw == [name \in ChannelNames |->
                      CASE name = "cyan"    -> cmyk_array.c
                        [] name = "magenta" -> cmyk_array.m
                        [] name = "yellow"  -> cmyk_array.y
                        [] name = "black"   -> black_channel
                        [] name = "white"   -> white_layer]
       IN  channels' = [name \in ChannelNames |->
                           IF is_compensated(name)
                           THEN apply_dot_gain_compensation(raw[name], config.dot_gain)
                           ELSE raw[name]]
    /\ compensated' = {name \in ChannelNames : is_compensated(name)}
    /\ Worked(3)
    /\ step' = 4
    /\ pc' = "notify"
    /\ UNCHANGED <<inputVars, fieldVars, cmyk_array, black_channel, white_layer, halftoned,
                   sink, run, completed, failure, ret, halftoneOnly,
                   results_at_call, windowVars>>

\* Steps 4-8, lines 104-124: one pass of the loop over channel_order
Halftone ==
    /\ pc = "work" /\ step \in 4..8
    /\ LET name == channel_order[step - 3]
           h == HalftoneChannel(config, name, channels[name])
           local == [n \in DOMAIN halftoned \cup {name} |->
                        IF n = name
                        THEN [plane |-> h.plane, alg |-> h.alg, run |-> run]
                        ELSE halftoned[n]]
       IN  /\ halftoned' = local
           /\ results' = ResultsDuringLoop(results, local)
    /\ Worked(step)
    /\ completed' = IF step = 8 THEN run ELSE completed
    /\ step' = IF step = 8 THEN step ELSE step + 1
    /\ pc' = IF step = 8 THEN "store" ELSE "notify"
    /\ UNCHANGED <<inputVars, is_processing, current_progress, total_steps,
                   cmyk_array, black_channel, white_layer, channels,
                   sink, run, failure, ret, halftoneOnly, compensated,
                   results_at_call, windowVars>>

\* a step's work raises (a library failure, memory, ...)
WorkRaises ==
    /\ pc = "work"
    /\ pc' = "except"
    /\ failure' = "environment"
    /\ UNCHANGED <<inputVars, fieldVars, step, localVars, sink, events, run, completed,
                   ret, halftoneOnly, compensated,
                   results_at_call, windowVars>>

\* line 126: self.results = halftoned
StoreResults ==
    /\ pc = "store"
    /\ results' = halftoned
    /\ pc' = "notify_complete"
    /\ UNCHANGED <<inputVars, is_processing, current_progress, total_steps, step, localVars,
                   sink, events, run, completed, failure, ret, halftoneOnly, compensated,
                   results_at_call, windowVars>>

\* line 131 and the finally clause: return halftoned
Return ==
    /\ pc = "return"
    /\ is_processing' = IsProcessingAfterFinally(FALSE)
    /\ ret' = halftoned
    /\ pc' = "returned"
    /\ UNCHANGED <<inputVars, current_progress, total_steps, results, step, localVars,
                   sink, events, run, completed, failure, halftoneOnly, compensated,
                   results_at_call, windowVars>>

\* lines 133-137: the except clause re-raises, the finally clause runs, and
\* the exception reaches the caller
Propagate ==
    /\ pc = "except"
    /\ is_processing' = IsProcessingAfterFinally(TRUE)
    /\ pc' = "raised"
    /\ UNCHANGED <<inputVars, current_progress, total_steps, results, step, localVars,
                   sink, events, run, completed, failure, ret, halftoneOnly, compensated,
                   results_at_call, windowVars>>

Next ==
    \/ Call
    \/ Notify
    \/ NotifyComplete
    \/ NotifyRaises
    \/ ColorSeparation
    \/ WhiteLayer
    \/ DotGain
    \/ Halftone
    \/ WorkRaises
    \/ StoreResults
    \/ Return
    \/ Propagate

Init ==
    /\ ProcInit
    /\ phase = "process"
    /\ args = NoValue
    /\ threshold_matrix = NoValue
    /\ ret = NoValue
    /\ frame = NoValue

Spec == Init /\ [][Next]_vars

(***************************************************************************)
(* Application of ordered_dither to every bounded input.                   *)
(***************************************************************************)
InputPlanes ==
    UNION {PlanesOf(h, w, Samples) : h \in PlaneHeights, w \in 1..MaxW}

DitherInit ==
    /\ ProcUnused
    /\ phase = "call"
    /\ args \in [channel : InputPlanes, matrix_size : MatrixSizes, angle : Angles]
    /\ threshold_matrix = NoValue
    /\ ret = NoValue
    /\ frame = NoValue

OrderedDither ==
    /\ phase = "call"
    /\ phase' = "returned"
    /\ threshold_matrix' = bayer_matrix(args.matrix_size)
    /\ ret' = ordered_dither(args.channel, args.matrix_size, args.angle)
    /\ UNCHANGED <<args, frame, procVars>>

DitherNext == OrderedDither

SpecDither == DitherInit /\ [][DitherNext]_vars

(***************************************************************************)
(* bayer_matrix run step by step on every size up to MaxSize: the early    *)
(* return for size 2, the loop passes, the final division.                 *)
(***************************************************************************)
BayerInit ==
    /\ ProcUnused
    /\ phase = "call"
    /\ args \in [size : 1..MaxSize]
    /\ threshold_matrix = NoValue
    /\ ret = NoValue
    /\ frame = NoValue

BayerMatrixBase ==
    /\ phase = "call"
    /\ args.size = 2
    /\ phase' = "returned"
    /\ ret' = [n |-> 2, num |-> BayerBase, den |-> 4]
    /\ UNCHANGED <<args, threshold_matrix, frame, procVars>>

BayerMatrixStart ==
    /\ phase = "call"
    /\ args.size # 2
    /\ phase' = "loop"
    /\ threshold_matrix' = [n |-> 2, num |-> BayerBase]
    /\ UNCHANGED <<args, ret, frame, procVars>>

BayerMatrixDouble ==
    /\ phase = "loop"
    /\ threshold_matrix.n < args.size
    /\ threshold_matrix' = [n |-> threshold_matrix.n * 2,
                            num |-> BayerStep(threshold_matrix.n, threshold_matrix.num)]
    /\ UNCHANGED <<phase, args, ret, frame, procVars>>

BayerMatrixReturn ==
    /\ phase = "loop"
    /\ ~(threshold_matrix.n < args.size)
    /\ phase' = "returned"
    /\ ret' = [n |-> threshold_matrix.n, num |-> threshold_matrix.num,
               den |-> args.size * args.size]
    /\ UNCHANGED <<args, threshold_matrix, frame, procVars>>

BayerNext ==
    \/ BayerMatrixBase
    \/ BayerMatrixStart
    \/ BayerMatrixDouble
    \/ BayerMatrixReturn

SpecBayer == BayerInit /\ [][BayerNext]_vars

(***************************************************************************)
(* floyd_steinberg run pixel by pixel on every bounded plane.  The frame   *)
(* holds the working plane `output`, the number k = y*w + x of the next    *)
(* pixel, and for every pixel visited so far the value read (old_pixel)    *)
(* and the value written (new_pixel), both in units of 1/FSScale.          *)
(***************************************************************************)
\* samples on both sides of the midpoint 127.5
FloydSamples == {0, 127, 128, 255}

FloydPlanes ==
    UNION {PlanesOf(h, w, FloydSamples) : h \in PlaneHeights, w \in 1..MaxW}

FloydInit ==
    /\ ProcUnused
    /\ phase = "call"
    /\ args \in [channel : FloydPlanes]
    /\ threshold_matrix = NoValue
    /\ ret = NoValue
    /\ frame = NoValue

\* lines 75-76
FloydCopy ==
    /\ phase = "call"
    /\ phase' = "scan"
    /\ frame' = [output |-> fs_copy(args.channel), k |-> 0, visits |-> <<>>]
    /\ UNCHANGED <<args, threshold_matrix, ret, procVars>>

\* lines 80-93, one pass of the inner loop
FloydPixel ==
    /\ phase = "scan"
    /\ frame.k < Height(args.channel) * Width(args.channel)
    /\ LET h == Height(args.channel)
           w == Width(args.channel)
           y == frame.k \div w
           x == frame.k % w
           after == fs_pixel(frame.output, y, x, h, w)
       IN  frame' = [output |-> after,
                     k |-> frame.k + 1,
                     visits |-> Append(frame.visits,
                                       [old_pixel |-> frame.output[y][x],
                                        new_pixel |-> after[y][x]])]
    /\ UNCHANGED <<phase, args, threshold_matrix, ret, procVars>>

\* line 95
FloydReturn ==
    /\ phase = "scan"
    /\ frame.k = Height(args.channel) * Width(args.channel)
    /\ phase' = "returned"
    /\ ret' = fs_clip(frame.output)
    /\ UNCHANGED <<args, threshold_matrix, frame, procVars>>

FloydNext ==
    \/ FloydCopy
    \/ FloydPixel
    \/ FloydReturn

SpecFloyd == FloydInit /\ [][FloydNext]_vars

(***************************************************************************)
(* hybrid_halftone run on every bounded plane, in its three parts: the     *)
(* masks, the FM part, the AM part.  The frame holds the masks and the     *)
(* plane `output`.                                                         *)
(***************************************************************************)
\* threshold arguments: the defaults, a pair in the other order, and
\* twice the same value
HybridThresholds ==
    {<<DefaultHighlight, DefaultShadow>>,
     <<DefaultShadow, DefaultHighlight>>,
     <<[num |-> 1, den |-> 2], [num |-> 1, den |-> 2]>>}

HybridInit ==
    /\ ProcUnused
    /\ phase = "call"
    /\ \E channel \in InputPlanes : \E t \in HybridThresholds :
           args = [channel |-> channel,
                   highlight_threshold |-> t[1],
                   shadow_threshold |-> t[2]]
    /\ threshold_matrix = NoValue
    /\ ret = NoValue
    /\ frame = NoValue

HybridMasks ==
    /\ phase = "call"
    /\ phase' = "fm"
    /\ frame' = hybrid_masks(args.channel, args.highlight_threshold, args.shadow_threshold)
    /\ UNCHANGED <<args, threshold_matrix, ret, procVars>>

HybridFM ==
    /\ phase = "fm"
    /\ phase' = "am"
    /\ frame' = [frame EXCEPT !.output = hybrid_fm(args.channel, frame, frame.output)]
    /\ UNCHANGED <<args, threshold_matrix, ret, procVars>>

HybridAM ==
    /\ phase = "am"
    /\ phase' = "returned"
    /\ frame' = [frame EXCEPT !.output = hybrid_am(args.channel, frame, frame.output)]
    /\ ret' = hybrid_am(args.channel, frame, frame.output)
    /\ UNCHANGED <<args, threshold_matrix, procVars>>

HybridNext ==
    \/ HybridMasks
    \/ HybridFM
    \/ HybridAM

SpecHybrid == HybridInit /\ [][HybridNext]_vars

(***************************************************************************)
(* rgb_to_cmyk applied to every bounded raster, black-generation mode and  *)
(* total_ink_limit.                                                        *)
(***************************************************************************)
SeparationLevels == {0, 64, 128, 255}

\* one-pixel rasters of every colour over SeparationLevels, and the rasters
\* process is explored on
SeparationRasters ==
    {FlatRaster(1, 1, <<r, g, b>>) :
        r \in SeparationLevels, g \in SeparationLevels, b \in SeparationLevels}
    \cup Rasters

BlackGenerations == {"GCR", "UCR"}

\* total_ink_limit in percent
InkLimits == {0, 100, 200, 280, 400}

SeparationInit ==
    /\ ProcUnused
    /\ phase = "call"
    /\ args \in [rgb : SeparationRasters,
                 black_generation : BlackGenerations,
                 total_ink_limit : InkLimits]
    /\ threshold_matrix = NoValue
    /\ ret = NoValue
    /\ frame = NoValue

\* the locals of rgb_to_cmyk before the scaling of lines 46-51: the
\* coverages c, m, y, k of every pixel, total_ink and mask
separation_locals(rgb, cfg) ==
    LET P(F(_)) == [y \in DOMAIN rgb |-> [x \in DOMAIN rgb[y] |-> F(rgb[y][x])]]
        V(px) == black_generation(px, cfg.black_generation)
        T(px) == total_ink(V(px))
        M(px) == OverLimit(T(px), cfg.total_ink_limit)
    IN  [coverage |-> P(V), total_ink |-> P(T), mask |-> P(M)]

RgbToCmyk ==
    /\ phase = "call"
    /\ phase' = "returned"
    /\ LET cfg == [DefaultConfig EXCEPT
                      !.black_generation = args.black_generation,
                      !.total_ink_limit = args.total_ink_limit]
       IN  /\ frame' = separation_locals(args.rgb, cfg)
           /\ ret' = rgb_to_cmyk(args.rgb, cfg)
    /\ UNCHANGED <<args, threshold_matrix, procVars>>

SeparationNext == RgbToCmyk

SpecSeparation == SeparationInit /\ [][SeparationNext]_vars

(***************************************************************************)
(* apply_dot_gain_compensation applied to every 8-bit sample, for the      *)
(* dot gains 0 and 0.12.                                                   *)
(***************************************************************************)
\* dot_gain in hundredths
DotGains == {0, 12}

DotGainInit ==
    /\ ProcUnused
    /\ phase = "call"
    /\ \E i \in 0..255 : \E g \in DotGains :
           args = [channel |-> [y \in 0..0 |-> [x \in 0..0 |-> i]], dot_gain |-> g]
    /\ threshold_matrix = NoValue
    /\ ret = NoValue
    /\ frame = NoValue

ApplyDotGainCompensation ==
    /\ phase = "call"
    /\ phase' = "returned"
    /\ ret' = apply_dot_gain_compensation(args.channel, args.dot_gain)
    /\ UNCHANGED <<args, threshold_matrix, frame, procVars>>

DotGainNext == ApplyDotGainCompensation

SpecDotGain == DotGainInit /\ [][DotGainNext]_vars

(***************************************************************************)
(* generate_white_layer applied to bounded RGB and RGBA rasters, for every *)
(* white_method and every edge map the library may return.                 *)
(***************************************************************************)
\* grays on both sides of the thresholds 250, 220 and 178.5 (density 0.3)
WhiteGrays == {<<v, v, v>> : v \in {0, 178, 179, 219, 220, 249, 250, 255}}

\* pixels with an alpha channel on both sides of 250
WhiteAlphas == {<<0, 0, 0, 249>>, <<0, 0, 0, 250>>, <<255, 255, 255, 0>>, <<255, 255, 255, 255>>}

WhiteRasters ==
    UNION {{SpotRaster(h, w, bg, fg) : bg \in WhiteGrays, fg \in WhiteGrays}
             \cup {SpotRaster(h, w, bg, fg) : bg \in WhiteAlphas, fg \in WhiteAlphas}
           : h \in PlaneHeights, w \in 1..MaxW}

WhiteMethods ==
    {"full", "halftone", "edge_enhanced", "transparency_based", "custom", "knockout"}

WhiteInit ==
    /\ ProcUnused
    /\ phase = "call"
    /\ \E rgb \in WhiteRasters : \E method \in WhiteMethods : \E edges \in EdgeMaps(rgb) :
           args = [rgb |-> rgb, method |-> method, edges |-> edges]
    /\ threshold_matrix = NoValue
    /\ ret = NoValue
    /\ frame = NoValue

GenerateWhiteLayer ==
    /\ phase = "call"
    /\ phase' = "returned"
    /\ ret' = generate_white_layer(args.rgb, args.method, args.edges)
    /\ UNCHANGED <<args, threshold_matrix, frame, procVars>>

WhiteNext == GenerateWhiteLayer

SpecWhite == WhiteInit /\ [][WhiteNext]_vars

(***************************************************************************)
(* create_preview called on a processor that holds no result or a          *)
(* completed ChannelSet; args keeps the results held at the call.          *)
(***************************************************************************)
\* planes of one sample, one per channel and independent of each other
PreviewChannelSets ==
    UNION {{[n \in ChannelNames |->
                [plane |-> [y \in 0..(h - 1) |-> [x \in 0..(w - 1) |-> v[n]]],
                 alg |-> "ordered_dither",
                 run |-> 1]]
              : v \in [ChannelNames -> PreviewSamples]}
           : h \in PlaneHeights, w \in 1..MaxW}

PreviewInit ==
    /\ phase = "call"
    /\ results \in PreviewChannelSets \cup {EmptyDict}
    /\ args = [results |-> results]
    /\ threshold_matrix = NoValue
    /\ ret = NoValue
    /\ frame = NoValue
    /\ image = NoValue
    /\ edge_map = NoValue
    /\ config = DefaultConfig
    /\ progress_callback = FALSE
    /\ is_processing = FALSE
    /\ current_progress = 0
    /\ total_steps = 0
    /\ pc = "idle"
    /\ step = 0
    /\ cmyk_array = NoValue
    /\ black_channel = NoValue
    /\ white_layer = NoValue
    /\ channels = EmptyDict
    /\ halftoned = EmptyDict
    /\ sink = <<>>
    /\ events = <<>>
    /\ run = 0
    /\ completed = 0
    /\ failure = "none"
    /\ compensated = {}
    /\ results_at_call = EmptyDict
    /\ ui = NoValue
    /\ workers = <<>>

CreatePreview ==
    /\ phase = "call"
    /\ phase' = "returned"
    /\ ret' = create_preview(results)
    /\ UNCHANGED <<args, threshold_matrix, frame, procVars>>

PreviewNext == CreatePreview

SpecPreview == PreviewInit /\ [][PreviewNext]_vars

(***************************************************************************)
(* DTFMainWindow and its ProcessingWorker threads on the one DTFProcessor  *)
(* and the one DTFConfig they share (main_window.py line 205).  The UI     *)
(* thread runs one handler at a time; a worker thread runs                 *)
(* DTFProcessor.process and is interleaved with the UI thread and with     *)
(* other workers at each access to a shared field.  The planes are not     *)
(* carried here: halftoned records, per channel, the method and the matrix *)
(* size the loop read.  The progress bar, the status bar and the message   *)
(* boxes are not part of the state.                                        *)
(***************************************************************************)
\* number of worker threads process_image starts in one behaviour
MaxWorkers == 2

\* number of changes of the method and matrix combo boxes in one behaviour
MaxEdits == 1

\* update_method, lines 714-719
method_mapping(text) ==
    CASE text = "Ordered Dithering" -> "ordered"
      [] text = "Error Diffusion"   -> "error_diffusion"
      [] text = "Hybrid"            -> "hybrid"
      [] OTHER                      -> "ordered"

MethodTexts == {"Ordered Dithering", "Error Diffusion", "Hybrid"}

\* update_matrix_size, lines 722-723
matrix_sizes(index) ==
    CASE index = 0 -> 4
      [] index = 1 -> 8
      [] index = 2 -> 16
      [] OTHER     -> 8

MatrixIndexes == {0, 1, 2}

\* the positions of a worker inside DTFProcessor.process, entry to exit
InCall == {"loop", "stored", "raised"}

\* a worker whose finished or error signal has not been handled yet
InFlight(worker) == worker.pc # "handled"

\* what the loop of lines 99-124 passes on for one channel
halftone_choice(cfg) ==
    CASE cfg.method = "ordered" ->
           [alg |-> "ordered_dither", method |-> cfg.method, matrix_size |-> cfg.matrix_size]
      [] cfg.method = "error_diffusion" ->
           [alg |-> "floyd_steinberg", method |-> cfg.method, matrix_size |-> 0]
      [] cfg.method = "hybrid" ->
           [alg |-> "hybrid_halftone", method |-> cfg.method, matrix_size |-> 0]
      [] OTHER ->
           [alg |-> "ordered_dither", method |-> cfg.method, matrix_size |-> 8]

\* the window after __init__: no image, the process button disabled
\* (line 271), no signal queued
NewWindow ==
    [original_image |-> FALSE,
     process_btn    |-> FALSE,
     signals        |-> <<>>,
     edits          |-> 0,
     aborted        |-> FALSE]

\* the processor and the config the window creates, lines 204-205
ProcUnusedByWindow ==
    /\ config = DefaultConfig
    /\ is_processing = FALSE
    /\ current_progress = 0
    /\ total_steps = 0
    /\ results = EmptyDict
    /\ phase = "call"
    /\ args = NoValue
    /\ threshold_matrix = NoValue
    /\ ret = NoValue
    /\ frame = NoValue
    /\ image = NoValue
    /\ edge_map = NoValue
    /\ progress_callback = TRUE
    /\ pc = "idle"
    /\ step = 0
    /\ cmyk_array = NoValue
    /\ black_channel = NoValue
    /\ white_layer = NoValue
    /\ channels = EmptyDict
    /\ halftoned = EmptyDict
    /\ sink = <<>>
    /\ events = <<>>
    /\ run = 0
    /\ completed = 0
    /\ failure = "none"
    /\ compensated = {}
    /\ results_at_call = EmptyDict

WindowInit ==
    /\ ui = NewWindow
    /\ workers = <<>>
    /\ ProcUnusedByWindow

\* what no handler of the window and no worker writes
windowUnused == <<halftoneVars, image, edge_map, progress_callback, pc, step, localVars, sink,
                  events, run, completed, failure, compensated, results_at_call>>

\* the UI thread is free to run a handler
UiIdle == ~ui.aborted

\* load_image, lines 558-586, for a chosen path; loaded is FALSE when
\* DTFProcessor.load_image returns None
LoadImage(loaded) ==
    /\ UiIdle
    /\ ui' = [ui EXCEPT !.original_image = loaded,
                        !.process_btn = IF loaded THEN TRUE ELSE @]
    /\ UNCHANGED <<workers, config, fieldVars, windowUnused>>

\* process_image, lines 588-614, on a click of the enabled button.
\* Line 600 rebinds self.worker_thread: when the QThread it held has not
\* been quit by on_processing_finished or on_processing_error, the last
\* reference to a running QThread is dropped, and Qt ends the program when
\* a running QThread is destroyed.
ProcessImage ==
    /\ UiIdle
    /\ ui.process_btn
    /\ IF ~ui.original_image
       THEN UNCHANGED <<ui, workers>>
       ELSE IF \E i \in DOMAIN workers : InFlight(workers[i])
       THEN /\ ui' = [ui EXCEPT !.process_btn = FALSE, !.aborted = TRUE]
            /\ UNCHANGED workers
       ELSE /\ Len(workers) < MaxWorkers
            /\ ui' = [ui EXCEPT !.process_btn = FALSE]
            /\ workers' = Append(workers, [pc        |-> "started",
                                           step      |-> 0,
                                           at_start  |-> NoValue,
                                           halftoned |-> <<>>])
    /\ UNCHANGED <<config, fieldVars, windowUnused>>

\* update_method, lines 713-719, on currentTextChanged of the method combo
UpdateMethod(text) ==
    /\ UiIdle
    /\ ui.edits < MaxEdits
    /\ config.method # method_mapping(text)
    /\ config' = [config EXCEPT !.method = method_mapping(text)]
    /\ ui' = [ui EXCEPT !.edits = @ + 1]
    /\ UNCHANGED <<workers, fieldVars, windowUnused>>

\* update_matrix_size, lines 721-723, on currentIndexChanged of the matrix combo
UpdateMatrixSize(index) ==
    /\ UiIdle
    /\ ui.edits < MaxEdits
    /\ config.matrix_size # matrix_sizes(index)
    /\ config' = [config EXCEPT !.matrix_size = matrix_sizes(index)]
    /\ ui' = [ui EXCEPT !.edits = @ + 1]
    /\ UNCHANGED <<workers, fieldVars, windowUnused>>

\* ProcessingWorker.process calls DTFProcessor.process: lines 57-59, and
\* steps 1 to 3 of lines 61-97, which read and write nothing the UI
\* thread or another worker writes
WorkerEnter(i) ==
    /\ ~ui.aborted
    /\ i \in DOMAIN workers
    /\ workers[i].pc = "started"
    /\ is_processing' = TRUE
    /\ current_progress' = 0
    /\ total_steps' = 8
    /\ workers' = [workers EXCEPT ![i].pc = "loop",
                                  ![i].at_start = [method |-> config.method,
                                                   matrix_size |-> config.matrix_size]]
    /\ UNCHANGED <<ui, config, results, windowUnused>>

\* one iteration of the loop of lines 99-124: config.method and
\* config.matrix_size are read when the channel is halftoned
WorkerHalftone(i) ==
    /\ ~ui.aborted
    /\ i \in DOMAIN workers
    /\ workers[i].pc = "loop"
    /\ workers[i].step < Len(channel_order)
    /\ workers' = [workers EXCEPT ![i].step = @ + 1,
                                  ![i].halftoned = Append(@, halftone_choice(config))]
    /\ UNCHANGED <<ui, config, fieldVars, windowUnused>>

\* self.results = halftoned, the last notification and the return,
\* lines 126-131
WorkerStore(i) ==
    /\ ~ui.aborted
    /\ i \in DOMAIN workers
    /\ workers[i].pc = "loop"
    /\ workers[i].step = Len(channel_order)
    /\ results' = [k \in 1..Len(channel_order) |-> workers[i].halftoned[k] @@ [run |-> i]]
    /\ workers' = [workers EXCEPT ![i].pc = "stored"]
    /\ UNCHANGED <<ui, config, is_processing, current_progress, total_steps, windowUnused>>

\* an exception inside the try block, lines 133-135
WorkerRaise(i) ==
    /\ ~ui.aborted
    /\ i \in DOMAIN workers
    /\ workers[i].pc = "loop"
    /\ workers' = [workers EXCEPT ![i].pc = "raised"]
    /\ UNCHANGED <<ui, config, fieldVars, windowUnused>>

\* finally: self.is_processing = False, lines 136-137; the locals of the
\* call end with it
WorkerExit(i) ==
    /\ ~ui.aborted
    /\ i \in DOMAIN workers
    /\ workers[i].pc \in {"stored", "raised"}
    /\ is_processing' = FALSE
    /\ workers' = [workers EXCEPT ![i] = [pc        |-> IF @.pc = "stored" THEN "returned" ELSE "failed",
                                         step      |-> 0,
                                         at_start  |-> NoValue,
                                         halftoned |-> <<>>]]
    /\ UNCHANGED <<ui, config, current_progress, total_steps, results, windowUnused>>

\* self.finished.emit(result) or self.error.emit(str(e)),
\* main_window.py lines 838-842; the signal is queued to the UI thread
WorkerEmit(i) ==
    /\ ~ui.aborted
    /\ i \in DOMAIN workers
    /\ workers[i].pc \in {"returned", "failed"}
    /\ ui' = [ui EXCEPT !.signals = Append(@, [kind |-> IF workers[i].pc = "returned"
                                                        THEN "finished" ELSE "error",
                                               worker |-> i])]
    /\ workers' = [workers EXCEPT ![i].pc = "emitted"]
    /\ UNCHANGED <<config, fieldVars, windowUnused>>

\* on_processing_finished, lines 623-638, on the queued finished signal
OnProcessingFinished ==
    /\ UiIdle
    /\ ui.signals # <<>>
    /\ Head(ui.signals).kind = "finished"
    /\ ui' = [ui EXCEPT !.signals = Tail(@), !.process_btn = TRUE]
    /\ workers' = [workers EXCEPT ![Head(ui.signals).worker].pc = "handled"]
    /\ UNCHANGED <<config, fieldVars, windowUnused>>

\* on_processing_error, lines 640-651, on the queued error signal
OnProcessingError ==
    /\ UiIdle
    /\ ui.signals # <<>>
    /\ Head(ui.signals).kind = "error"
    /\ ui' = [ui EXCEPT !.signals = Tail(@), !.process_btn = TRUE]
    /\ workers' = [workers EXCEPT ![Head(ui.signals).worker].pc = "handled"]
    /\ UNCHANGED <<config, fieldVars, windowUnused>>

WindowNext ==
    \/ \E loaded \in BOOLEAN : LoadImage(loaded)
    \/ ProcessImage
    \/ \E text \in MethodTexts : UpdateMethod(text)
    \/ \E index \in MatrixIndexes : UpdateMatrixSize(index)
    \/ \E i \in 1..MaxWorkers : WorkerEnter(i)
    \/ \E i \in 1..MaxWorkers : WorkerHalftone(i)
    \/ \E i \in 1..MaxWorkers : WorkerStore(i)
    \/ \E i \in 1..MaxWorkers : WorkerRaise(i)
    \/ \E i \in 1..MaxWorkers : WorkerExit(i)
    \/ \E i \in 1..MaxWorkers : WorkerEmit(i)
    \/ OnProcessingFinished
    \/ OnProcessingError

SpecWindow == WindowInit /\ [][WindowNext]_vars

(***************************************************************************)
(* Several threads, each running ProcessingWorker.process on the one       *)
(* DTFProcessor, with no window handler in between.                        *)
(***************************************************************************)
\* number of threads that call process on the one processor
MaxCallers == 2

CallsInit ==
    /\ ui = NewWindow
    /\ workers = [i \in 1..MaxCallers |-> [pc        |-> "started",
                                           step      |-> 0,
                                           at_start  |-> NoValue,
                                           halftoned |-> <<>>]]
    /\ ProcUnusedByWindow

CallsNext ==
    \/ \E i \in 1..MaxCallers : WorkerEnter(i)
    \/ \E i \in 1..MaxCallers : WorkerHalftone(i)
    \/ \E i \in 1..MaxCallers : WorkerStore(i)
    \/ \E i \in 1..MaxCallers : WorkerRaise(i)
    \/ \E i \in 1..MaxCallers : WorkerExit(i)
    \/ \E i \in 1..MaxCallers : WorkerEmit(i)

SpecCalls == CallsInit /\ [][CallsNext]_vars

(***************************************************************************)
(* Properties of the halftone functions.                                   *)
(***************************************************************************)

\* C7: ordered_dither returns only the values 0 and 255, for every input
\* plane, every matrix_size and every angle, a non-zero angle included.
C7_OrderedDitherBinary ==
    phase = "returned" => PlaneValues(ret) \subseteq {0, 255}

\* C8: with angle 0, ordered_dither(plane, N, 0) is 255 at the pixel (y, x)
\* when plane[y][x]/255 is strictly greater than
\* bayer_matrix(N)[y mod N][x mod N] and 0 otherwise, whatever H and W are,
\* and the plane [[255,0],[0,255]] with N = 2 yields [[255,0],[0,255]].
C8_Diagonal == [y \in 0..1 |-> [x \in 0..1 |-> IF x = y THEN 255 ELSE 0]]

C8_ThresholdPerPixel ==
    (phase = "returned" /\ args.angle = 0 /\ IsPowerOfTwo(args.matrix_size)) =>
        LET N == args.matrix_size
            plane == args.channel
        IN  /\ threshold_matrix.n = N
            /\ DOMAIN ret = DOMAIN plane
            /\ \A y \in DOMAIN plane :
                  /\ DOMAIN ret[y] = DOMAIN plane[y]
                  /\ \A x \in DOMAIN plane[y] :
                        ret[y][x] =
                          IF plane[y][x] * threshold_matrix.den
                               > 255 * threshold_matrix.num[y % N][x % N]
                          THEN 255 ELSE 0
            /\ (N = 2 /\ plane = C8_Diagonal) => ret = C8_Diagonal

\* a 2 x 3 plane under the 2 x 2 matrix: the third column wraps around to
\* the first threshold column, and the tone 64 is on over the threshold 0
\* and off over the threshold 2/4
C8_Witness ==
    /\ phase = "returned"
    /\ args.angle = 0
    /\ args.matrix_size = 2
    /\ Height(args.channel) = 2
    /\ Width(args.channel) = 3
    /\ args.channel[0][2] = 64 /\ ret[0][2] = 255
    /\ args.channel[0][1] = 64 /\ ret[0][1] = 0
    /\ args.channel[0][0] = 0 /\ ret[0][0] = 0

\* C9: bayer_matrix(2) is [[0,2],[3,1]]/4, and for a power of two N the
\* result is an N x N matrix whose entries are the N*N values k/(N*N),
\* k = 0..N*N-1, each once.
C9_BayerLevels ==
    (phase = "returned" /\ "size" \in DOMAIN args /\ IsPowerOfTwo(args.size)) =>
        LET N == args.size
        IN  /\ ret.n = N
            /\ ret.den = N * N
            /\ DOMAIN ret.num = 0..(N - 1)
            /\ \A r \in 0..(N - 1) : DOMAIN ret.num[r] = 0..(N - 1)
            /\ {ret.num[r][c] : r \in 0..(N - 1), c \in 0..(N - 1)}
                  = 0..(N * N - 1)
            /\ N = 2 => /\ ret.num[0][0] = 0 /\ ret.num[0][1] = 2
                        /\ ret.num[1][0] = 3 /\ ret.num[1][1] = 1
                        /\ ret.den = 4

C9_Witness ==
    /\ phase = "returned"
    /\ "size" \in DOMAIN args
    /\ args.size = 16
    /\ ret.n = 16
    /\ ret.num[15][15] = 253

\* C10: a matrix size that is not a power of two (3, 5, 6, ...) is
\* rejected: bayer_matrix returns no threshold matrix for it.
C10_NonPowerOfTwoRejected ==
    ~(/\ phase = "returned"
      /\ "size" \in DOMAIN args
      /\ args.size >= 3
      /\ ~IsPowerOfTwo(args.size))

(***************************************************************************)
(* Properties of DTFProcessor.process.                                     *)
(***************************************************************************)

\* C1: with a progress sink, the work of a run follows the fixed order
\* colour separation, white layer, dot gain, then the halftoning of cyan,
\* magenta, yellow, black, white as steps 4..8; each step's work comes
\* directly after the notification that carries its index and message, and
\* after the work of the step before; the indices delivered start at 1,
\* never decrease and reach 8.
C1_Work ==
    <<"rgb_to_cmyk", "generate_white_layer", "apply_dot_gain_compensation",
      "halftone cyan", "halftone magenta", "halftone yellow",
      "halftone black", "halftone white">>

C1_Message ==
    <<"Separating colors...", "Generating white layer...",
      "Applying dot gain compensation...",
      "Halftoning cyan channel...", "Halftoning magenta channel...",
      "Halftoning yellow channel...", "Halftoning black channel...",
      "Halftoning white channel...">>

C1_WorkBefore(i) == Cardinality({j \in 1..(i - 1) : events[j].kind = "work"})

C2_Step8SignalsCompletion ==
    (Len(sink) > 0 /\ sink[Len(sink)].step = 8) =>
        /\ DOMAIN halftoned = ChannelNames
        /\ results = halftoned

\* C3: when an exception reaches the caller, is_processing is already
\* False, nothing was returned, and the stored result is not a partial
\* ChannelSet; a returned ChannelSet is never partial either.
C3_AbortOnException ==
    /\ pc = "raised" =>
         /\ is_processing = FALSE
         /\ DOMAIN ret = {}
         /\ DOMAIN results \in {{}, ChannelNames}
    /\ pc = "returned" => DOMAIN ret = ChannelNames

C3_Witness ==
    /\ pc = "raised"
    /\ failure = "environment"
    /\ step = 6
    /\ DOMAIN halftoned = {"cyan", "magenta"}
    /\ DOMAIN results = {}
    /\ is_processing = FALSE

C5_UnknownMethodFallsBack ==
    config.method \notin {"ordered", "error_diffusion", "hybrid"} =>
        /\ \A n \in DOMAIN halftoned : halftoned[n].alg = "ordered_dither"
        /\ failure \in {"none", "callback", "environment"}
        /\ (pc = "work" /\ step \in 4..8) =>
               DOMAIN halftoned = {channel_order[j] : j \in 1..(step - 4)}
        /\ pc = "returned" =>
               /\ DOMAIN ret = ChannelNames
               /\ results = ret
               /\ failure = "none"

C5_Witness ==
    /\ config.method = "stochastic"
    /\ pc = "returned"
    /\ DOMAIN ret = ChannelNames
    /\ \A n \in ChannelNames : ret[n].alg = "ordered_dither"

\* C6: with method 'ordered' and the default config, the returned
\* ChannelSet has exactly the five keys, every plane has the raster's H and
\* W, and every sample is 0 or 255.
C6_OrderedFullBinary ==
    (pc = "returned" /\ config = DefaultConfig) =>
        /\ DOMAIN ret = ChannelNames
        /\ \A n \in ChannelNames :
             /\ Height(ret[n].plane) = Height(image)
             /\ Width(ret[n].plane) = Width(image)
             /\ PlaneValues(ret[n].plane) \subseteq {0, 255}

\* C17: dot-gain compensation is applied to the cyan, magenta, yellow and
\* black planes only; the white plane handed to the halftone step is the
\* plane generate_white_layer returned, unchanged.
C17_WhiteExempt ==
    /\ DOMAIN channels = ChannelNames =>
           /\ compensated = {"cyan", "magenta", "yellow", "black"}
           /\ white_layer = generate_white_layer(image, config.white_method, edge_map)
           /\ channels["white"] = white_layer
           /\ channels["cyan"] = apply_dot_gain_compensation(cmyk_array.c, config.dot_gain)
           /\ channels["magenta"] = apply_dot_gain_compensation(cmyk_array.m, config.dot_gain)
           /\ channels["yellow"] = apply_dot_gain_compensation(cmyk_array.y, config.dot_gain)
           /\ channels["black"] = apply_dot_gain_compensation(black_channel, config.dot_gain)
    /\ "white" \in DOMAIN halftoned =>
           halftoned["white"].plane = HalftoneChannel(config, "white", white_layer).plane
    /\ DOMAIN channels # ChannelNames => compensated = {}

\* a returned call whose white layer has both samples and whose cyan plane
\* was changed by the compensation
C17_Witness ==
    /\ pc = "returned"
    /\ PlaneValues(white_layer) = {0, 255}
    /\ channels["white"] = white_layer
    /\ channels["cyan"] # cmyk_array.c
    /\ "white" \in DOMAIN ret

\* C18: a call of process, successful or failing, leaves the config and the
\* input raster unchanged: no step changes a config field or a raster sample.
C18_InputsUnchanged ==
    [][image' = image /\ config' = config]_vars

\* a second call on the same processor that failed after the colour
\* separation had run, and a first call that returned
C18_Witness ==
    /\ pc = "raised"
    /\ run = 2
    /\ failure = "environment"
    /\ step > 1
    /\ DOMAIN results = ChannelNames
    /\ cmyk_array # NoValue

\* C21: under an unrecognized method name process returns the ChannelSet
\* it returns under method='ordered' for the same raster and the same
\* config otherwise: every channel dithered with config.matrix_size and
\* the channel's configured screen angle.
C21_FallbackSameAsOrdered ==
    (pc = "returned" /\ config.method \notin {"ordered", "error_diffusion", "hybrid"}) =>
        \A n \in ChannelNames :
            ret[n].plane
                = HalftoneChannel([config EXCEPT !.method = "ordered"], n, channels[n]).plane

\* C26: when a call of process raises, at whatever point, an exception of
\* the progress sink on any notification included, the stored results
\* after the call are the results stored before the call.
C26_FailedRunKeepsResults ==
    pc = "raised" => results = results_at_call

(***************************************************************************)
(* Properties of floyd_steinberg.                                          *)
(***************************************************************************)

\* C11: floyd_steinberg returns only the values 0 and 255: a pixel keeps,
\* through the rest of the scan and in the returned plane, the quantized
\* value written when it was visited.
C11_FloydBinary ==
    phase \in {"scan", "returned"} =>
        LET w == Width(args.channel)
        IN  /\ \A k \in 1..Len(frame.visits) :
                   /\ frame.visits[k].new_pixel \in {0, 255 * FSScale}
                   /\ frame.output[(k - 1) \div w][(k - 1) % w] = frame.visits[k].new_pixel
            /\ phase = "returned" =>
                   /\ Len(frame.visits) = Height(args.channel) * w
                   /\ PlaneValues(ret) \subseteq {0, 255}
                   /\ \A k \in 1..Len(frame.visits) :
                          ret[(k - 1) \div w][(k - 1) % w] * FSScale
                              = frame.visits[k].new_pixel

\* a returned 2-row plane in which the error of the first row was carried
\* into the second: the pixel below a 127 is read above the midpoint
C11_Witness ==
    /\ phase = "returned"
    /\ Height(args.channel) = 2
    /\ \E x \in DOMAIN args.channel[0] :
           /\ args.channel[0][x] = 127
           /\ args.channel[1][x] = 127
           /\ ret[0][x] = 0
           /\ ret[1][x] = 255


\* the error old_pixel - new_pixel left at the visited pixel (y, x), and 0
\* for a position outside the plane
C19_Error(y, x) ==
    LET w == Width(args.channel)
    IN  IF y \in DOMAIN args.channel /\ x \in DOMAIN args.channel[0]
        THEN frame.visits[y * w + x + 1].old_pixel - frame.visits[y * w + x + 1].new_pixel
        ELSE 0

\* C19: floyd_steinberg is the reference error diffusion.  Pixels are
\* visited row-major; the value v read at a visited pixel is its sample plus
\* 7/16 of the error of its left neighbour, 3/16 of the error of the pixel
\* above right, 5/16 of the pixel above and 1/16 of the pixel above left,
\* and nothing else (a share that leaves the plane is dropped); the pixel
\* is written 255 when v > 127.5 and 0 otherwise; the returned plane is
\* the plane of the written values.
C19_ReferenceDiffusion ==
    phase \in {"scan", "returned"} =>
        LET w == Width(args.channel)
        IN  /\ Len(frame.visits) = frame.k
            /\ \A k \in 1..Len(frame.visits) :
                   LET y == (k - 1) \div w
                       x == (k - 1) % w
                       v == frame.visits[k].old_pixel
                   IN  /\ v = args.channel[y][x] * FSScale
                               + 7 * (C19_Error(y, x - 1) \div 16)
                               + 3 * (C19_Error(y - 1, x + 1) \div 16)
                               + 5 * (C19_Error(y - 1, x) \div 16)
                               + 1 * (C19_Error(y - 1, x - 1) \div 16)
                       /\ \A e \in {C19_Error(y, x - 1), C19_Error(y - 1, x + 1),
                                     C19_Error(y - 1, x), C19_Error(y - 1, x - 1)} :
                              e % 16 = 0
                       /\ frame.visits[k].new_pixel
                              = IF 2 * v > 255 * FSScale THEN 255 * FSScale ELSE 0
            /\ phase = "returned" =>
                   /\ ret = floyd_steinberg(args.channel)
                   /\ \A y \in DOMAIN ret : \A x \in DOMAIN ret[y] :
                          ret[y][x] * FSScale = frame.visits[y * w + x + 1].new_pixel

\* a returned 2-row plane whose last pixel of the first row was read above
\* the midpoint only through the 7/16 carried along the row, and whose
\* first column dropped the share that would go below left
C19_Witness ==
    /\ phase = "returned"
    /\ Height(args.channel) = 2
    /\ Width(args.channel) >= 2
    /\ args.channel[0][0] = 127
    /\ args.channel[0][1] = 127
    /\ frame.visits[2].old_pixel > 127 * FSScale
    /\ ret[0][1] = 255
    /\ frame.visits[Width(args.channel) + 1].old_pixel # args.channel[1][0] * FSScale

\* C30: during floyd_steinberg a step of the scan changes only the pixel
\* it visits and neighbours inside the plane that the row-major scan has
\* not visited yet (right, below left, below, below right): a pixel once
\* quantized is never modified again and nothing outside the plane is
\* written.
C30_OnlyUnvisitedWritten ==
    [][(phase = "scan" /\ phase' = "scan") =>
          LET h == Height(args.channel)
              w == Width(args.channel)
              y == frame.k \div w
              x == frame.k % w
          IN  /\ frame'.k = frame.k + 1
              /\ DOMAIN frame'.output = 0..(h - 1)
              /\ \A yy \in 0..(h - 1) :
                     /\ DOMAIN frame'.output[yy] = 0..(w - 1)
                     /\ \A xx \in 0..(w - 1) :
                            frame'.output[yy][xx] # frame.output[yy][xx] =>
                                /\ yy * w + xx >= frame.k
                                /\ \/ yy = y /\ xx \in {x, x + 1}
                                   \/ yy = y + 1 /\ xx \in {x - 1, x, x + 1}
              /\ frame'.output[y][x] \in {0, 255 * FSScale}
      ]_vars

\* the scan has entered the second row and the pixel it is about to visit
\* holds error diffused from the first row and from its left neighbour
C30_Witness ==
    /\ phase = "scan"
    /\ Height(args.channel) = 2
    /\ Width(args.channel) >= 2
    /\ frame.k = Width(args.channel) + 1
    /\ frame.output[1][1] # args.channel[1][1] * FSScale
    /\ frame.output[0][0] \in {0, 255 * FSScale}
    /\ args.channel[0][0] = 127
    /\ args.channel[1][0] = 128

(***************************************************************************)
(* Properties of hybrid_halftone.                                          *)
(***************************************************************************)

\* C12: for every plane and every pair of threshold arguments, every pixel
\* is in exactly one of the highlight, shadow and midtone masks.
C12_MasksPartition ==
    phase \in {"fm", "am", "returned"} =>
        \A y \in DOMAIN args.channel : \A x \in DOMAIN args.channel[y] :
            Cardinality({m \in {"highlight_mask", "shadow_mask", "midtone_mask"} :
                            frame[m][y][x]}) = 1

\* C20: the returned plane is floyd_steinberg(plane) at the highlight and
\* shadow pixels and ordered_dither(plane, matrix_size=8, angle=0) at the
\* midtone pixels, both computed over the full plane.
C20_HybridBlend ==
    phase = "returned" =>
        \A y \in DOMAIN args.channel : \A x \in DOMAIN args.channel[y] :
            ret[y][x] = IF frame.midtone_mask[y][x]
                        THEN ordered_dither(args.channel, 8, 0)[y][x]
                        ELSE floyd_steinberg(args.channel)[y][x]

(***************************************************************************)
(* Properties of rgb_to_cmyk.                                              *)
(***************************************************************************)
\* the four 8-bit samples rgb_to_cmyk returned for the pixel (y, x)
C13_SeparatedAt(y, x) ==
    [ch \in {"c", "m", "y", "k"} |-> ret.cmyk_array[ch][y][x]]

C13_SeparatedSum(y, x) ==
    C13_SeparatedAt(y, x)["c"] + C13_SeparatedAt(y, x)["m"]
        + C13_SeparatedAt(y, x)["y"] + C13_SeparatedAt(y, x)["k"]

\* C13: every pixel of the 8-bit output has c + m + y + k, as a percentage
\* of full coverage (255), at most total_ink_limit, within one 8-bit unit
\* of rounding.
C13_InkLimitHolds ==
    phase = "returned" =>
        \A y \in DOMAIN args.rgb : \A x \in DOMAIN args.rgb[y] :
            100 * C13_SeparatedSum(y, x) <= 255 * args.total_ink_limit + 100

\* black under a 200% limit: the unlimited coverage would be 380%
C13_Witness ==
    /\ phase = "returned"
    /\ args.rgb = FlatRaster(1, 1, Black)
    /\ args.black_generation = "GCR"
    /\ args.total_ink_limit = 200
    /\ C13_SeparatedSum(0, 0) = 509

\* C14: ink limiting changes a pixel only when its c + m + y + k exceeds
\* total_ink_limit / 100.  A pixel within the limit has the four samples
\* of its unlimited coverages.  A pixel over the limit has its four
\* coverages multiplied by one factor (the samples of two channels are in
\* the ratio of their coverages, within the truncation to 8 bits) and the
\* sum of its samples is the limit, less than one unit per channel below.
C14_InkLimitScales ==
    phase = "returned" =>
        \A y \in DOMAIN args.rgb : \A x \in DOMAIN args.rgb[y] :
            LET v == black_generation(args.rgb[y][x], args.black_generation)
                t == total_ink(v)
                s == C13_SeparatedAt(y, x)
            IN  /\ ret.black_channel[y][x] = s["k"]
                /\ (100 * t.num > args.total_ink_limit * t.den) =>
                       /\ 100 * C13_SeparatedSum(y, x) <= 255 * args.total_ink_limit
                       /\ 100 * C13_SeparatedSum(y, x) > 255 * args.total_ink_limit - 400
                       /\ \A f \in {"c", "m", "y", "k"} : \A g \in {"c", "m", "y", "k"} :
                              LET d == s[f] * v[g].num * v[f].den - s[g] * v[f].num * v[g].den
                              IN  /\ (d < v[f].num * v[g].den \/ d = 0)
                                  /\ (-d < v[g].num * v[f].den \/ d = 0)
                /\ ~(100 * t.num > args.total_ink_limit * t.den) =>
                       \A f \in {"c", "m", "y", "k"} :
                           s[f] = (IF v[f].num >= v[f].den THEN 255
                                   ELSE (255 * v[f].num) \div v[f].den)

\* black under a 200% limit is scaled to (134, 134, 134, 107), and in the
\* same call under 400% it would be (255, 255, 255, 204)
C14_Witness ==
    /\ phase = "returned"
    /\ args.rgb = FlatRaster(1, 1, Black)
    /\ args.black_generation = "GCR"
    /\ args.total_ink_limit = 200
    /\ C13_SeparatedAt(0, 0) = [ch \in {"c", "m", "y", "k"} |-> IF ch = "k" THEN 107 ELSE 134]

\* C22: with UCR, k = min(1-r, 1-g, 1-b) and c, m, y are (1-r)-k, (1-g)-k,
\* (1-b)-k without renormalization: before ink limiting the four
\* coverages lie in [0,1] and at least one of c, m, y is 0.
C22_UnderColorRemoval ==
    (phase = "returned" /\ args.black_generation = "UCR") =>
        \A y \in DOMAIN args.rgb : \A x \in DOMAIN args.rgb[y] :
            LET px == args.rgb[y][x]
                v == frame.coverage[y][x]
                inv == [f \in {"c", "m", "y"} |->
                           255 - px[CASE f = "c" -> 1 [] f = "m" -> 2 [] f = "y" -> 3]]
            IN  /\ \A f \in {"c", "m", "y", "k"} :
                       v[f].den = 255 /\ v[f].num \in 0..255
                /\ \A f \in {"c", "m", "y"} : v["k"].num <= inv[f]
                /\ \E f \in {"c", "m", "y"} : v["k"].num = inv[f]
                /\ \A f \in {"c", "m", "y"} : v[f].num = inv[f] - v["k"].num
                /\ \E f \in {"c", "m", "y"} : v[f].num = 0

\* the pixel (0, 64, 128): k = 127/255 and c, m, y = 128, 64, 0 over 255
C22_Witness ==
    /\ phase = "returned"
    /\ args.black_generation = "UCR"
    /\ args.rgb = FlatRaster(1, 1, <<0, 64, 128>>)
    /\ frame.coverage[0][0]["k"].num = 127
    /\ frame.coverage[0][0]["c"].num = 128
    /\ frame.coverage[0][0]["y"].num = 0

\* C25: for every raster, both modes and every total_ink_limit >= 0,
\* rgb_to_cmyk divides by nothing that is zero: the GCR denominator 1 - k
\* is at least 0.2 at every pixel, and the scale of the ink limit is
\* computed only for pixels whose total ink is strictly greater than the
\* limit fraction, hence positive.
C25_NoDivisionByZero ==
    phase = "returned" =>
        \A y \in DOMAIN args.rgb : \A x \in DOMAIN args.rgb[y] :
            LET v == frame.coverage[y][x]
                t == frame.total_ink[y][x]
            IN  /\ \A f \in {"c", "m", "y", "k"} : v[f].den > 0
                /\ args.black_generation = "GCR" =>
                       \A f \in {"c", "m", "y"} : 5 * v[f].den >= 1275
                /\ t.den > 0
                /\ frame.mask[y][x] =>
                       /\ t.num > 0
                       /\ 100 * t.num > args.total_ink_limit * t.den
                /\ (t.num = 0) => ~frame.mask[y][x]
                /\ \A f \in {"c", "m", "y", "k"} : ret.cmyk_array[f][y][x] \in 0..255

\* pure white under a limit of 0: the total ink is zero and is not divided by
C25_Witness ==
    /\ phase = "returned"
    /\ args.rgb = FlatRaster(1, 1, White)
    /\ args.total_ink_limit = 0
    /\ args.black_generation = "GCR"
    /\ frame.total_ink[0][0].num = 0
    /\ ~frame.mask[0][0]
    /\ C13_SeparatedSum(0, 0) = 0

(***************************************************************************)
(* Properties of apply_dot_gain_compensation.                              *)
(***************************************************************************)

\* C15: with dot_gain = 0 the table entry of every sample i in 0..255
\* differs from i by at most 1, 0 is mapped to 0 and 255 to 255.
C15_IdentityWithinOne ==
    (phase = "returned" /\ args.dot_gain = 0) =>
        LET i == args.channel[0][0]
            o == ret[0][0]
        IN  /\ o - i \in {-1, 0, 1}
            /\ i = 0 => o = 0
            /\ i = 255 => o = 255

\* a sample the truncation moves: 244 is returned as 243
C15_Witness ==
    /\ phase = "returned"
    /\ args.dot_gain = 0
    /\ args.channel[0][0] = 244
    /\ ret[0][0] = 243

(***************************************************************************)
(* Properties of generate_white_layer.                                     *)
(***************************************************************************)

\* C16: for every raster and every white_method the returned plane has the
\* raster's height and width and only the samples 0 and 255.
C16_WhiteLayerBinary ==
    phase = "returned" =>
        /\ Height(ret) = Height(args.rgb)
        /\ Width(ret) = Width(args.rgb)
        /\ PlaneValues(ret) \subseteq {0, 255}

\* the halftone method on a raster with a pixel on each side of the
\* density threshold: both samples occur
C16_Witness ==
    /\ phase = "returned"
    /\ args.method = "halftone"
    /\ Height(args.rgb) = 2
    /\ args.rgb[0][0] = <<179, 179, 179>>
    /\ PlaneValues(ret) = {0, 255}

\* C23: generate_white_layer returns 255 at every pixel for
\* 'transparency_based' on a raster without an alpha channel, for 'custom'
\* and for any unrecognized white_method; with an alpha channel,
\* 'transparency_based' returns 255 exactly where alpha < 250, 0 elsewhere.
C23_OpaqueFallback ==
    phase = "returned" =>
        \A y \in DOMAIN args.rgb : \A x \in DOMAIN args.rgb[y] :
            LET px == args.rgb[y][x]
            IN  /\ args.method \notin {"full", "halftone", "edge_enhanced",
                                       "transparency_based"} => ret[y][x] = 255
                /\ (args.method = "transparency_based" /\ Len(px) = 3) => ret[y][x] = 255
                /\ (args.method = "transparency_based" /\ Len(px) = 4) =>
                       ret[y][x] = (IF px[4] < 250 THEN 255 ELSE 0)

\* 'transparency_based' on an RGBA raster with an alpha of 249 and one of 250
C23_Witness ==
    /\ phase = "returned"
    /\ args.method = "transparency_based"
    /\ Height(args.rgb) = 2
    /\ args.rgb[0][0] = <<0, 0, 0, 250>>
    /\ ret[0][0] = 0
    /\ \E x \in DOMAIN args.rgb[1] : args.rgb[1][x] = <<0, 0, 0, 249>> /\ ret[1][x] = 255

(***************************************************************************)
(* Properties of create_preview.                                           *)
(***************************************************************************)
\* 2550 * clip((1 - channel/255) + 0.3 * white/255, 0, 1)
C24_Tenths(channel, white) ==
    LET sum == 2550 - 10 * channel + 3 * white
    IN  IF sum < 0 THEN 0 ELSE IF sum > 2550 THEN 2550 ELSE sum

\* C24: create_preview of a completed ChannelSet returns an H x W x 3
\* raster with red = clip((1 - cyan/255) + 0.3 * white/255), green the same
\* of magenta and blue of yellow, scaled to 8 bits (the sample is the
\* scaled value less a fraction below one unit); the black plane has no
\* influence and the stored planes are left unchanged.
C24_PreviewFormula ==
    (phase = "returned" /\ DOMAIN args.results = ChannelNames) =>
        LET planes == [n \in ChannelNames |-> args.results[n].plane]
            order == <<"cyan", "magenta", "yellow">>
        IN  /\ results = args.results
            /\ Height(ret) = Height(planes["cyan"])
            /\ Width(ret) = Width(planes["cyan"])
            /\ \A y \in DOMAIN ret : \A x \in DOMAIN ret[y] :
                   /\ Len(ret[y][x]) = 3
                   /\ \A i \in 1..3 :
                          LET exact == C24_Tenths(planes[order[i]][y][x], planes["white"][y][x])
                          IN  /\ 10 * ret[y][x][i] <= exact
                              /\ 10 * ret[y][x][i] >= exact - 10
            /\ \A v \in PreviewSamples :
                   ret = create_preview(
                           [args.results EXCEPT
                               !["black"].plane = [y \in DOMAIN @ |-> [x \in DOMAIN @[y] |-> v]]])

\* full cyan, no magenta, some yellow over full white, with a black plane
\* of its own: the pixel is (76, 255, 255)
C24_Witness ==
    /\ phase = "returned"
    /\ DOMAIN args.results = ChannelNames
    /\ Width(ret) = 2
    /\ args.results["cyan"].plane[0][0] = 255
    /\ args.results["magenta"].plane[0][0] = 0
    /\ args.results["yellow"].plane[0][0] = 65
    /\ args.results["white"].plane[0][0] = 255
    /\ args.results["black"].plane[0][0] = 65
    /\ ret[0][0] = <<76, 255, 255>>

(***************************************************************************)
(* Properties of the window, its workers and the shared processor.         *)
(***************************************************************************)
\* C27: under every interleaving of process calls on one processor,
\* is_processing is TRUE while at least one call is between its entry and
\* its exit and FALSE while none is.
C27_FlagTracksCalls ==
    is_processing <=> \E i \in DOMAIN workers : workers[i].pc \in InCall

\* C28: within one run all channels are halftoned with the method and the
\* matrix size in force when the run started, whatever update_method and
\* update_matrix_size do meanwhile.
C28_ConfigFixedPerRun ==
    \A i \in DOMAIN workers : \A k \in DOMAIN workers[i].halftoned :
        workers[i].halftoned[k] = halftone_choice(workers[i].at_start)

\* C29: from the start of a run by process_image until its finished or
\* error signal is handled the process button stays disabled, and at most
\* one run is in flight.
C29_OneRunInFlight ==
    /\ (\E i \in DOMAIN workers : InFlight(workers[i])) => ~ui.process_btn
    /\ Cardinality({i \in DOMAIN workers : InFlight(workers[i])}) <= 1

====
